---- MODULE Spec2Model ----
(***************************************************************************)
(* Authorization gate and account lifecycle of the alohawaii-travel API.   *)
(*                                                                         *)
(* Strings of the program whose characters matter (origins, emails) are    *)
(* sequences of symbols; a symbol is one character or one literal that no  *)
(* operation of the program ever splits.  JavaScript null and undefined    *)
(* are the value Null (for sequences: NullSeq).                            *)
(***************************************************************************)
EXTENDS Integers, Sequences, FiniteSets, TLC

VARIABLES
  env,      \* process.env: NODE_ENV, the three API keys, API_DOMAIN_WHITELIST
  domains,  \* table whitelisted_domains: domain -> "absent" | "active" | "inactive"
  users,    \* table users: email -> row (exists = FALSE when there is no row)
  tokens,   \* session tokens minted so far (JWT strategy, nothing is revoked)
  now,      \* the clock, in days
  last,     \* the last operation, its input and its outcome
  accounts, \* table users as the set of its rows (concurrent sign-ins)
  calls     \* the concurrent sign-ins in flight: process -> its position

vars == <<env, domains, users, tokens, now, last, accounts, calls>>

----------------------------------------------------------------------------
(* JavaScript values *)

Null == "<null>"
NullSeq == <<"<null>">>

\* truthiness of a string-or-null value: null, undefined and '' are falsy
Truthy(v) == v # Null /\ v # ""

\* truthiness of a string held as a sequence of symbols
TruthySeq(s) == s # NullSeq /\ s # <<>>

\* a || b
OrElse(a, b) == IF Truthy(a) THEN a ELSE b

OrElseSeq(a, b) == IF TruthySeq(a) THEN a ELSE b

IsPrefix(p, s) == Len(p) <= Len(s) /\ SubSeq(s, 1, Len(p)) = p

----------------------------------------------------------------------------
(* Credential registry: src/middleware/apiAuth.ts *)

RouteTypes == {"internal", "external"}

NodeEnvs == {"development", "test", "production"}

\* the property names every object literal inherits from Object.prototype
ObjectPrototypeKeys == {"constructor"}

\* which entry of an object literal keyed [HUB_KEY || ''], [WEBSITE_KEY || ''],
\* [DEV_KEY || ''] the property k resolves to: a later computed key overwrites
\* an earlier equal one
RegistryEntry(e, k) ==
  IF k = OrElse(e.DEV_API_KEY, "") THEN "DEV"
  ELSE IF k = OrElse(e.WEBSITE_API_KEY, "") THEN "WEBSITE"
  ELSE IF k = OrElse(e.HUB_API_KEY, "") THEN "HUB"
  ELSE IF k \in ObjectPrototypeKeys THEN "inherited"
  ELSE "undefined"

\* ACCESS_LEVELS[k] of a registry that gives the website's key both route classes
ACCESS_LEVELS_WebsiteInternal(e, k) ==
  CASE RegistryEntry(e, k) \in {"HUB", "WEBSITE", "DEV"} ->
         [kind |-> "array", items |-> {"internal", "external"}]
    [] OTHER -> [kind |-> RegistryEntry(e, k), items |-> {}]

\* ACCESS_LEVELS[k]
ACCESS_LEVELS(e, k) ==
  CASE RegistryEntry(e, k) = "HUB" -> [kind |-> "array", items |-> {"internal", "external"}]
    [] RegistryEntry(e, k) = "WEBSITE" -> [kind |-> "array", items |-> {"external"}]
    [] RegistryEntry(e, k) = "DEV" -> [kind |-> "array", items |-> {"internal", "external"}]
    [] OTHER -> [kind |-> RegistryEntry(e, k), items |-> {}]

\* symbols of origin strings
LocalhostColon == "http://localhost:"
HubOrigin == "https://hub.alohawaii.com"
ApexOrigin == "https://alohawaii.com"
WwwOrigin == "https://www.alohawaii.com"
Digits == {"0", "1", "3"}

\* ALLOWED_ORIGINS[k]
ALLOWED_ORIGINS(e, k) ==
  CASE RegistryEntry(e, k) = "HUB" ->
         [kind |-> "array",
          items |-> << <<LocalhostColon, "3", "0", "0", "0">>, <<HubOrigin>> >>]
    [] RegistryEntry(e, k) = "WEBSITE" ->
         [kind |-> "array",
          items |-> << <<LocalhostColon, "3", "0", "0", "1">>, <<ApexOrigin>>,
                       <<WwwOrigin>> >>]
    [] RegistryEntry(e, k) = "DEV" ->
         [kind |-> "array", items |-> << <<LocalhostColon, "*">> >>]
    [] OTHER -> [kind |-> RegistryEntry(e, k), items |-> <<>>]

\* the regular expression made by pattern.replace('*', '\\d+') matches a prefix of s
RECURSIVE MatchPrefix(_, _)
MatchPrefix(p, s) ==
  IF p = <<>> THEN TRUE
  ELSE IF Head(p) = "*"
    THEN \E n \in 1..Len(s) :
           /\ \A j \in 1..n : s[j] \in Digits
           /\ MatchPrefix(Tail(p), SubSeq(s, n + 1, Len(s)))
    ELSE s # <<>> /\ Head(s) = Head(p) /\ MatchPrefix(Tail(p), Tail(s))

\* new RegExp(pattern).test(origin): an unanchored search
RegExpTest(p, s) == \E i \in 1..(Len(s) + 1) : MatchPrefix(p, SubSeq(s, i, Len(s)))

\* the callback of allowedOrigins.some(...)
OriginMatches(allowedOrigin, origin) ==
  IF \E i \in 1..Len(allowedOrigin) : allowedOrigin[i] = "*"
    THEN RegExpTest(allowedOrigin, origin)
    ELSE IsPrefix(allowedOrigin, origin)

isOriginAllowed(allowedOrigins, origin) ==
  \E i \in 1..Len(allowedOrigins) : OriginMatches(allowedOrigins[i], origin)

\* a bypass that tests NODE_ENV !== 'production' instead of === 'development'
SkipValidationOutsideProduction(e) == e.NODE_ENV # "production" /\ ~Truthy(e.HUB_API_KEY)

\* a bypass that does not test NODE_ENV at all
SkipValidationWithoutHubKey(e) == ~Truthy(e.HUB_API_KEY)

\* the development bypass at the head of validateApiAccess
SkipValidation(e) == e.NODE_ENV = "development" /\ ~Truthy(e.HUB_API_KEY)

\* request.headers.get('X-API-Key') || request.headers.get('x-api-key')
HeaderApiKey(request) == request.apiKey

\* request.headers.get('origin') || request.headers.get('referer')
HeaderOrigin(request) == OrElseSeq(request.origin, request.referer)

\* an origin block that returns the origin error in every mode
OriginDeniedInEveryMode(e, apiKey, origin) ==
  /\ TruthySeq(origin)
  /\ ALLOWED_ORIGINS(e, apiKey).kind = "array"
  /\ ~isOriginAllowed(ALLOWED_ORIGINS(e, apiKey).items, origin)

\* an origin block that, in production, also returns the origin error when the
\* request has neither header
OriginRequiredInProduction(e, apiKey, origin) ==
  /\ ALLOWED_ORIGINS(e, apiKey).kind = "array"
  /\ ~TruthySeq(origin) \/ ~isOriginAllowed(ALLOWED_ORIGINS(e, apiKey).items, origin)
  /\ e.NODE_ENV = "production"

\* the origin block of validateApiAccess: TRUE when it returns the origin error
OriginDenied(e, apiKey, origin) ==
  /\ TruthySeq(origin)
  /\ ALLOWED_ORIGINS(e, apiKey).kind = "array"
  /\ ~isOriginAllowed(ALLOWED_ORIGINS(e, apiKey).items, origin)
  /\ e.NODE_ENV = "production"

ErrKeyRequired == "API key required. Please include X-API-Key header."
ErrInvalidKey == "Invalid API key provided."
ErrRouteClass(routeType) ==
  IF routeType = "internal" THEN "API key does not have access to internal routes."
  ELSE "API key does not have access to external routes."
ErrOrigin == "Origin not allowed for this API key."

Validation(isValid, error, apiKey, threw, steps) ==
  [isValid |-> isValid, error |-> error, apiKey |-> apiKey, threw |-> threw,
   steps |-> steps]

\* validateApiAccess(request, routeType).  steps lists the checks evaluated, in
\* order; threw is TRUE when the call ends in a TypeError (includes is not a
\* function, on a value inherited from Object.prototype).
validateApiAccess(e, request, routeType) ==
  LET apiKey == HeaderApiKey(request)
      allowedRoutes == ACCESS_LEVELS(e, apiKey)
  IN IF SkipValidation(e)
       THEN Validation(TRUE, Null, Null, FALSE, <<"skip">>)
     ELSE IF ~Truthy(apiKey)
       THEN Validation(FALSE, ErrKeyRequired, Null, FALSE, <<"key">>)
     ELSE IF allowedRoutes.kind = "undefined"
       THEN Validation(FALSE, ErrInvalidKey, Null, FALSE, <<"key", "registry">>)
     ELSE IF allowedRoutes.kind = "inherited"
       THEN Validation(FALSE, Null, Null, TRUE, <<"key", "registry", "routeClass">>)
     ELSE IF routeType \notin allowedRoutes.items
       THEN Validation(FALSE, ErrRouteClass(routeType), Null, FALSE,
                       <<"key", "registry", "routeClass">>)
     ELSE IF OriginDenied(e, apiKey, HeaderOrigin(request))
       THEN Validation(FALSE, ErrOrigin, Null, FALSE,
                       <<"key", "registry", "routeClass", "origin">>)
     ELSE Validation(TRUE, Null, apiKey, FALSE,
                     <<"key", "registry", "routeClass", "origin">>)

----------------------------------------------------------------------------
(* Roles and sessions *)

\* enum UserRole of the schema, in declaration order
Roles == {"PENDING", "READONLY", "USER", "STAFF", "MANAGER", "ADMIN"}

\* session.maxAge of authOptions, in days
SessionMaxAge == 30

\* the subject NextAuth puts in a token before the jwt callback replaces it
ProviderSub == <<"google-sub">>

NoToken == [present |-> FALSE, sub |-> NullSeq, email |-> NullSeq, role |-> Null, exp |-> 0]

Token(sub, email, role, exp) ==
  [present |-> TRUE, sub |-> sub, email |-> email, role |-> role, exp |-> exp]

\* getToken({ req, secret }): the decoded session cookie, or null when the
\* cookie is missing or its token has expired
getToken(request, t) ==
  IF request.session.present /\ t < request.session.exp THEN request.session ELSE NoToken

\* getServerSession(authOptions), through the session callback: session.user
\* carries token.sub as id and token.role as role
getServerSession(request, t) ==
  LET token == getToken(request, t)
  IN [present |-> token.present, id |-> token.sub, email |-> token.email,
      role |-> token.role]

\* getAuthenticatedUser(): null when there is no session
getAuthenticatedUser(request, t) == getServerSession(request, t)

\* roleHierarchy[role] of hasRole; -1 stands for undefined
roleHierarchy(role) ==
  CASE role = "CUSTOMER" -> 0
    [] role = "ADMIN" -> 1
    [] role = "SUPER_ADMIN" -> 2
    [] OTHER -> -1

\* a role test that every caller passes
hasRoleOfAnyone(userRole, requiredRole) == TRUE

\* hasRole(userRole, requiredRole): a comparison with undefined is false
hasRole(userRole, requiredRole) ==
  /\ roleHierarchy(userRole) # -1
  /\ roleHierarchy(requiredRole) # -1
  /\ roleHierarchy(userRole) >= roleHierarchy(requiredRole)

isAdminRole(role) == role = "ADMIN"

\* a manager test that also takes STAFF for a manager
isManagerRoleOrStaff(role) == role \in {"STAFF", "MANAGER"} \/ isAdminRole(role)

isManagerRole(role) == role = "MANAGER" \/ isAdminRole(role)

isStaffRole(role) == role = "STAFF" \/ isManagerRole(role)

ErrAuthRequiredSignIn == "Authentication required. Please sign in."
ErrAdminRequired ==
  "Admin permissions required. Your role does not have access to this resource."

\* validateAdminAuth(request)
validateAdminAuth(request, t) ==
  LET session == getServerSession(request, t)
  IN IF ~session.present
       THEN [isValid |-> FALSE, error |-> ErrAuthRequiredSignIn]
     ELSE IF ~(session.role = "ADMIN")
       THEN [isValid |-> FALSE, error |-> ErrAdminRequired]
     ELSE [isValid |-> TRUE, error |-> Null]

----------------------------------------------------------------------------
(* Responses *)

\* status 0: NextResponse.next() (the request goes on to its route handler);
\* kind "throw": the call ended in an uncaught exception
Next0(steps) == [kind |-> "next", status |-> 0, text |-> Null, code |-> Null, steps |-> steps]

Json(status, text, code, steps) ==
  [kind |-> "response", status |-> status, text |-> text, code |-> code, steps |-> steps]

Thrown(steps) == [kind |-> "throw", status |-> 0, text |-> Null, code |-> Null, steps |-> steps]

----------------------------------------------------------------------------
(* The middleware: src/middleware.ts *)

PathAuth == <<"api", "auth">>
PathExternal == <<"api", "external">>
\* a middleware that takes every path under /api for an Internal one
PathApi == <<"api">>
PathInternal == <<"api", "internal">>
PathInternalAdmin == <<"api", "internal", "admin">>

MsgAuthRequired == "Authentication required"
MsgAdminRequired == "Admin access required"

\* the route type the middleware passes to validateApiAccess
MiddlewareRouteType(pathname) ==
  IF IsPrefix(PathInternal, pathname) THEN "internal" ELSE "external"

\* the role test of the middleware on /api/internal/admin paths
MiddlewareAdminDenied(pathname, token) ==
  IsPrefix(PathInternalAdmin, pathname) /\ token.role \notin {"ADMIN", "SUPER_ADMIN"}

middleware(e, request, t) ==
  LET pathname == request.path
      isApi == IsPrefix(PathExternal, pathname) \/ IsPrefix(PathInternal, pathname)
      v == validateApiAccess(e, request, MiddlewareRouteType(pathname))
      keySteps == IF isApi THEN v.steps ELSE <<>>
      token == getToken(request, t)
  IN IF IsPrefix(PathAuth, pathname) THEN Next0(<<>>)
     ELSE IF isApi /\ v.threw THEN Thrown(keySteps)
     ELSE IF isApi /\ ~v.isValid THEN Json(401, v.error, "UNAUTHORIZED", keySteps)
     ELSE IF IsPrefix(PathInternal, pathname)
       THEN IF ~token.present
              THEN Json(401, MsgAuthRequired, Null, keySteps \o <<"session">>)
            ELSE IF MiddlewareAdminDenied(pathname, token)
              THEN Json(403, MsgAdminRequired, Null, keySteps \o <<"session", "role">>)
            ELSE Next0(keySteps \o <<"session", "role">>)
     ELSE Next0(keySteps)

\* createApiAuthMiddleware(routeType): null (here: next) lets the handler go on
apiAuthMiddleware(e, request, routeType) ==
  LET v == validateApiAccess(e, request, routeType)
  IN IF v.threw THEN Thrown(v.steps)
     ELSE IF ~v.isValid THEN Json(401, v.error, "UNAUTHORIZED", v.steps)
     ELSE Next0(v.steps)

----------------------------------------------------------------------------
(* The store: tables users and whitelisted_domains of the schema *)

NoRow ==
  [exists |-> FALSE, name |-> Null, image |-> Null, role |-> "PENDING",
   isActive |-> FALSE, lastLoginAt |-> 0]

\* a row of table users; the id of a row is modelled by its (unique,
\* never rewritten) email, createdAt and updatedAt are not modelled
Row(name, image, role, isActive, lastLoginAt) ==
  [exists |-> TRUE, name |-> name, image |-> image, role |-> role,
   isActive |-> isActive, lastLoginAt |-> lastLoginAt]

\* s.split(sep), on sequences of symbols
RECURSIVE Split(_, _)
Split(s, sep) ==
  IF \A i \in 1..Len(s) : s[i] # sep THEN <<s>>
  ELSE LET i == CHOOSE k \in 1..Len(s) : s[k] = sep /\ \A j \in 1..(k - 1) : s[j] # sep
       IN <<SubSeq(s, 1, i - 1)>> \o Split(SubSeq(s, i + 1, Len(s)), sep)

\* a[1] of a JavaScript array (the second element), undefined when there is none
Second(a) == IF Len(a) >= 2 THEN a[2] ELSE NullSeq

\* extractDomain(email)
extractDomain(email) == Second(Split(email, "@"))

\* process.env.API_DOMAIN_WHITELIST?.split(",") || []
envWhitelist(e) == e.API_DOMAIN_WHITELIST

\* isDomainWhitelisted(domain): "true", "false", or "throw" when the store
\* call rejects (store fault, or findUnique without its unique field)
isDomainWhitelisted(e, doms, domain, fault) ==
  IF \E i \in 1..Len(envWhitelist(e)) : envWhitelist(e)[i] = domain THEN "true"
  ELSE IF fault = 1 \/ domain = NullSeq THEN "throw"
  ELSE IF domain \in DOMAIN doms /\ doms[domain] = "active" THEN "true"
  ELSE "false"

\* isEmailFromWhitelistedDomain(email): findUnique({ where: { domain } }) finds
\* the row of the domain whatever its isActive; a rejection of the store call
\* (fault 1) is caught
isEmailFromWhitelistedDomain(doms, email, fault) ==
  LET emailParts == Split(email, "@")
  IN IF Len(emailParts) # 2 THEN FALSE
     ELSE IF fault = 1 THEN FALSE
     ELSE emailParts[2] \in DOMAIN doms /\ doms[emailParts[2]] # "absent"

\* prisma.whitelistedDomain.findFirst({ where: { domain, isActive: true } }):
\* TRUE when a row is found; an undefined domain is no filter at all
findFirstActiveDomain(doms, domain) ==
  IF domain = NullSeq THEN \E d \in DOMAIN doms : doms[d] = "active"
  ELSE domain \in DOMAIN doms /\ doms[domain] = "active"

\* what a sign-in callback leaves: its return value and the table
SignInResult(result, table) == [result |-> result, users |-> table]

\* an update whose data also carries the role of the create branch
UpdatedWithRole(row, name, image, t) ==
  [row EXCEPT !.name = IF name = Null THEN @ ELSE name,
              !.image = IF image = Null THEN @ ELSE image,
              !.role = "PENDING",
              !.lastLoginAt = t]

\* data of prisma.user.update: an undefined field is left as it is
Updated(row, name, image, t) ==
  [row EXCEPT !.name = IF name = Null THEN @ ELSE name,
              !.image = IF image = Null THEN @ ELSE image,
              !.lastLoginAt = t]

\* the role given to the row a sign-in creates
NewUserRole == "PENDING"

\* authOptions.callbacks.signIn, create-or-update form; t is new Date();
\* fault n makes the n-th store call reject
signIn(e, doms, table, profile, t, fault) ==
  LET domain == OrElseSeq(profile.hd, extractDomain(profile.email))
      isWhitelisted == isDomainWhitelisted(e, doms, domain, fault)
      existingUser == table[profile.email]
  IN IF isWhitelisted = "throw" THEN SignInResult("throw", table)
     ELSE IF isWhitelisted = "false" THEN SignInResult("false", table)
     ELSE IF fault = 2 \/ fault = 3 THEN SignInResult("false", table)
     ELSE IF existingUser.exists
       THEN SignInResult("true",
              [table EXCEPT ![profile.email] =
                 Updated(existingUser, profile.name, profile.picture, t)])
     ELSE SignInResult("true",
            [table EXCEPT ![profile.email] =
               Row(profile.name, profile.picture, NewUserRole, TRUE, t)])

\* the role given to the row the upsert form creates
UpsertUserRole == "STAFF"

\* authOptions.callbacks.signIn, upsert form (avatar is the image column; the
\* domain and googleId columns are not modelled; fault 2 is the store
\* rejecting the upsert)
signInUpsert(e, doms, table, profile, t, fault) ==
  LET domain == OrElseSeq(profile.hd, extractDomain(profile.email))
      isWhitelisted == isDomainWhitelisted(e, doms, domain, fault)
      existingUser == table[profile.email]
  IN IF isWhitelisted = "throw" THEN SignInResult("throw", table)
     ELSE IF isWhitelisted = "false" THEN SignInResult("false", table)
     ELSE IF fault = 2 THEN SignInResult("false", table)
     ELSE IF existingUser.exists
       THEN SignInResult("true",
              [table EXCEPT ![profile.email] =
                 Updated(existingUser, profile.name, profile.picture, t)])
     ELSE SignInResult("true",
            [table EXCEPT ![profile.email] =
               Row(profile.name, profile.picture, UpsertUserRole, TRUE, t)])

\* authOptions.callbacks.jwt at sign-in (user is set): the token NextAuth then
\* signs, with expiry maxAge from now
jwt(table, email, t) ==
  LET dbUser == table[email]
  IN IF dbUser.exists /\ dbUser.isActive
       THEN Token(email, email, dbUser.role, t + SessionMaxAge)
       ELSE Token(ProviderSub, email, Null, t + SessionMaxAge)

----------------------------------------------------------------------------
(* Route handlers.  Each takes the request and the table and gives its      *)
(* response and the table it leaves.  request.fault = n makes the n-th      *)
(* store call of the handler reject.                                        *)

Handled(res, table) == [res |-> res, users |-> table]

\* the row findUnique({ where: { id } }) finds
FindById(table, id) == IF id \in DOMAIN table THEN table[id] ELSE NoRow

\* GET /api/external/health
healthGET(e, request) ==
  LET authResult == apiAuthMiddleware(e, request, "external")
  IN IF authResult.kind # "next" THEN authResult
     ELSE Json(200, "healthy", Null, authResult.steps \o <<"handler">>)

\* GET /api/internal/users/me
usersMeGET(e, table, request, t) ==
  LET authResult == apiAuthMiddleware(e, request, "internal")
      user == getAuthenticatedUser(request, t)
      steps == authResult.steps \o <<"session">>
  IN IF authResult.kind # "next" THEN authResult
     ELSE IF ~user.present THEN Json(401, MsgAuthRequired, Null, steps)
     ELSE IF request.fault = 1 THEN Json(500, "Failed to get user profile", Null, steps)
     ELSE IF ~FindById(table, user.id).exists THEN Json(404, "User not found", Null, steps)
     ELSE Json(200, "Success", Null, steps \o <<"handler">>)

\* GET /api/internal/users: the whole handler is inside try/catch; fault 1 is
\* the store rejecting the query (a store error, or a selected column that the
\* deployed schema does not have)
usersGET(e, request, t) ==
  LET apiValidation == validateApiAccess(e, request, "internal")
      adminValidation == validateAdminAuth(request, t)
      steps == apiValidation.steps \o <<"session", "role">>
  IN IF apiValidation.threw
       THEN Json(500, "Failed to fetch users. Please try again later.", "INTERNAL_ERROR",
                 apiValidation.steps)
     ELSE IF ~apiValidation.isValid
       THEN Json(401, apiValidation.error, "UNAUTHORIZED_API", apiValidation.steps)
     ELSE IF ~adminValidation.isValid
       THEN Json(403, adminValidation.error, "INSUFFICIENT_PERMISSIONS", steps)
     ELSE IF request.fault = 1
       THEN Json(500, "Failed to fetch users. Please try again later.", "INTERNAL_ERROR",
                 steps \o <<"handler">>)
     ELSE Json(200, "Retrieved users successfully", Null, steps \o <<"handler">>)

\* UpdateRoleSchema.parse(body): TRUE when the body is valid
UpdateRoleSchemaValid(body) ==
  body.role \in Roles /\ body.isActive \in {"undefined", "true", "false"}

\* PATCH of a user's role (the handler after GET/PUT in users/me/route.ts)
rolePATCH(e, table, request, t) ==
  LET apiValidation == validateApiAccess(e, request, "internal")
      adminValidation == validateAdminAuth(request, t)
      steps == apiValidation.steps \o <<"session", "role">>
      userId == request.targetId
      ServerError(st) ==
        Json(500, "Failed to update user role. Please try again later.", "INTERNAL_ERROR", st)
  IN IF apiValidation.threw THEN Handled(ServerError(apiValidation.steps), table)
     ELSE IF ~apiValidation.isValid
       THEN Handled(Json(401, apiValidation.error, "UNAUTHORIZED_API", apiValidation.steps),
                    table)
     ELSE IF ~adminValidation.isValid
       THEN Handled(Json(403, adminValidation.error, "INSUFFICIENT_PERMISSIONS", steps), table)
     ELSE IF request.fault = 1 THEN Handled(ServerError(steps), table)
     ELSE IF ~FindById(table, userId).exists
       THEN Handled(Json(404, "User not found", "NOT_FOUND", steps), table)
     ELSE IF ~UpdateRoleSchemaValid(request.body)
       THEN Handled(Json(400, "Invalid input data", "VALIDATION_ERROR", steps), table)
     ELSE IF request.fault = 2 THEN Handled(ServerError(steps), table)
     ELSE Handled(Json(200, "User role updated successfully", Null, steps \o <<"handler">>),
                  [table EXCEPT ![userId] =
                     [@ EXCEPT !.role = request.body.role,
                               !.isActive = IF request.body.isActive = "undefined" THEN @
                                            ELSE request.body.isActive = "true"]])

\* UpdateUserSchema.parse(body) of types/api.ts: TRUE when the body is valid;
\* Null stands for a key the body does not have
UpdateUserSchemaValid(body) ==
  /\ body.role \in {Null, "CUSTOMER", "ADMIN", "SUPER_ADMIN"}
  /\ body.isActive \in {"undefined", "true", "false"}

\* PUT /api/internal/users/me: everything after the API key check is inside
\* try/catch.  The store rejects the update (fault 1, a row that does not
\* exist, or a role that is not of its enum) and the handler answers 500; the
\* language of the body is not modelled
usersMePUT(e, table, request, t) ==
  LET authResult == apiAuthMiddleware(e, request, "internal")
      user == getAuthenticatedUser(request, t)
      steps == authResult.steps \o <<"session">>
      updateData == request.body
      admin == hasRole(user.role, "ADMIN")
      role == IF admin /\ updateData.role # Null THEN updateData.role ELSE Null
      isActive == IF admin THEN updateData.isActive ELSE "undefined"
      ServerError == Json(500, "Failed to update profile", Null, steps)
  IN IF authResult.kind # "next" THEN Handled(authResult, table)
     ELSE IF ~user.present
       THEN Handled(Json(401, MsgAuthRequired, Null, steps), table)
     ELSE IF ~UpdateUserSchemaValid(updateData) THEN Handled(ServerError, table)
     ELSE IF request.fault = 1 \/ ~FindById(table, user.id).exists
             \/ (role # Null /\ role \notin Roles)
       THEN Handled(ServerError, table)
     ELSE Handled(Json(200, "Profile updated successfully", Null, steps \o <<"handler">>),
                  [table EXCEPT ![user.id] =
                     [@ EXCEPT !.name = IF updateData.name = Null THEN @ ELSE updateData.name,
                               !.role = IF role = Null THEN @ ELSE role,
                               !.isActive = IF isActive = "undefined" THEN @
                                            ELSE isActive = "true"]])

ErrDomain == "Domain not authorized for this system"
ErrDeactivated == "Account is deactivated. Please contact administrator."
ErrPending == "Account is pending approval. Please contact administrator for access."
ErrCreated ==
  "Account created but requires administrator approval. Please contact your administrator for access."
ErrUnavailable == "Authentication service unavailable"

\* POST /api/internal/users/auth: the API key check is outside try/catch
usersAuthPOST(e, doms, table, request, t) ==
  LET validation == validateApiAccess(e, request, "internal")
      email == request.body.email
      name == request.body.name
      image == request.body.image
      emailDomain == Second(Split(email, "@"))
      existingUser == table[email]
      steps == validation.steps
  IN IF validation.threw THEN Handled(Thrown(steps), table)
     ELSE IF ~validation.isValid THEN Handled(Json(401, validation.error, Null, steps), table)
     ELSE IF ~TruthySeq(email) THEN Handled(Json(400, "Email is required", Null, steps), table)
     ELSE IF request.fault = 1 THEN Handled(Json(500, ErrUnavailable, Null, steps), table)
     ELSE IF ~findFirstActiveDomain(doms, emailDomain)
       THEN Handled(Json(403, ErrDomain, Null, steps), table)
     ELSE IF request.fault = 2 THEN Handled(Json(500, ErrUnavailable, Null, steps), table)
     ELSE IF existingUser.exists /\ ~existingUser.isActive
       THEN Handled(Json(403, ErrDeactivated, Null, steps), table)
     ELSE IF existingUser.exists /\ existingUser.role = "PENDING"
       THEN Handled(Json(403, ErrPending, Null, steps), table)
     ELSE IF request.fault = 3 THEN Handled(Json(500, ErrUnavailable, Null, steps), table)
     ELSE IF existingUser.exists
       THEN Handled(Json(200, "signed in", Null, steps \o <<"handler">>),
                    [table EXCEPT ![email] =
                       [@ EXCEPT !.lastLoginAt = t,
                                 !.name = IF Truthy(name) THEN name ELSE @,
                                 !.image = IF Truthy(image) THEN image ELSE @]])
     ELSE Handled(Json(403, ErrCreated, Null, steps \o <<"handler">>),
                  [table EXCEPT ![email] =
                     Row(OrElse(name, Null), OrElse(image, Null), "PENDING", TRUE, t)])

----------------------------------------------------------------------------
(* Inputs *)

\* how many state-changing operations a behaviour explores
MaxOps == 2

HubKey == "hub-key"
WebsiteKey == "website-key"
DevKey == "dev-key"

Env(nodeEnv, hub, website, dev, whitelist) ==
  [NODE_ENV |-> nodeEnv, HUB_API_KEY |-> hub, WEBSITE_API_KEY |-> website,
   DEV_API_KEY |-> dev, API_DOMAIN_WHITELIST |-> whitelist]

TestCompany == <<"testcompany.com">>
OldCompany == <<"old.example">>
Partner == <<"partner.example">>
Elsewhere == <<"elsewhere.example">>

\* the key variables as a deployment sets them: all three, none, some, and
\* two variables holding the same key
KeyConfigs ==
  { <<HubKey, WebsiteKey, DevKey>>, <<Null, Null, Null>>, <<Null, WebsiteKey, DevKey>>,
    <<"", WebsiteKey, Null>>, <<HubKey, Null, Null>>, <<HubKey, WebsiteKey, WebsiteKey>>,
    <<HubKey, HubKey, DevKey>>, <<HubKey, WebsiteKey, Null>> }

GateEnvs ==
  { Env(n, k[1], k[2], k[3], <<Partner>>) : n \in NodeEnvs, k \in KeyConfigs }

LifecycleEnvs == { Env("production", HubKey, WebsiteKey, DevKey, <<Partner>>) }

\* table whitelisted_domains
DomainTable ==
  (TestCompany :> "active") @@ (OldCompany :> "inactive") @@ (Partner :> "absent")
  @@ (Elsewhere :> "absent")

AdminEmail == <<"admin", "@", "testcompany.com">>
AnnEmail == <<"ann", "@", "testcompany.com">>
BobEmail == <<"bob", "@", "elsewhere.example">>
NoAtEmail == <<"dan">>
CatEmail == <<"cat", "@", "partner.example">>
OldEmail == <<"olga", "@", "old.example">>
TwoAtEmail == <<"eve", "@", "testcompany.com", "@", "evil.example">>

Emails == {AdminEmail, AnnEmail, BobEmail, NoAtEmail, CatEmail, OldEmail, TwoAtEmail}

Pictures == {Null, "pic"}

Profile(email, name, picture, hd) ==
  [email |-> email, name |-> name, picture |-> picture, hd |-> hd]

NoProfile == Profile(NullSeq, Null, Null, NullSeq)

\* the identities the provider verifies: an address of one of its accounts,
\* with the workspace domain (hd) when the account is a workspace account
Profiles ==
  { Profile(AnnEmail, "Annie", p, NullSeq) : p \in Pictures }
  \cup { Profile(AnnEmail, "Annie", Null, TestCompany), Profile(BobEmail, "Bob", Null, NullSeq),
         Profile(BobEmail, "Bob", Null, Elsewhere), Profile(BobEmail, "Bob", Null, TestCompany) }

Body(email, name, image, role, isActive) ==
  [email |-> email, name |-> name, image |-> image, role |-> role, isActive |-> isActive]

NoBody == Body(NullSeq, Null, Null, Null, "undefined")

Req(path, apiKey, origin, referer, session, viaMiddleware, fault, targetId, body) ==
  [path |-> path, apiKey |-> apiKey, origin |-> origin, referer |-> referer,
   session |-> session, viaMiddleware |-> viaMiddleware, fault |-> fault,
   targetId |-> targetId, body |-> body]

NoReq == Req(<<>>, Null, NullSeq, NullSeq, NoToken, FALSE, 0, NullSeq, NoBody)

PathHealth == <<"api", "external", "health">>
PathUsersMe == <<"api", "internal", "users", "me">>
PathUsers == <<"api", "internal", "users">>
PathUserRole == <<"api", "internal", "users", "[id]", "role">>
PathUsersAuth == <<"api", "internal", "users", "auth">>
PathAdminArea == <<"api", "internal", "admin", "reports">>
PathNextAuth == <<"api", "auth", "session">>

ApiKeyHeaders == {Null, "", HubKey, WebsiteKey, DevKey, "unknown-key", "constructor"}

OriginHeaders ==
  { NullSeq, <<HubOrigin>>, <<LocalhostColon, "3", "0", "0", "1">>, <<"https://evil.example">>,
    <<HubOrigin, ".evil.example">>,
    <<"https://evil.example/?", LocalhostColon, "3", "0", "0", "0">> }

RefererHeaders == { NullSeq, <<HubOrigin, "/users">> }

NotRun == [kind |-> "notrun", status |-> 0, text |-> Null, code |-> Null, steps |-> <<>>]

Last(op, req, profile, mw, res, result, token) ==
  [op |-> op, req |-> req, profile |-> profile, mw |-> mw, res |-> res,
   result |-> result, token |-> token]

----------------------------------------------------------------------------
(* The state machine *)

\* the seeded administrator, signed in on day 0 and again today
AdminRow == Row("Admin", Null, "ADMIN", TRUE, SessionMaxAge)

\* the table after seeding, with Ann's row as given
SeededUsers(annRow) ==
  [m \in Emails |-> IF m = AdminEmail THEN AdminRow ELSE IF m = AnnEmail THEN annRow ELSE NoRow]

\* the administrator's tokens: the one of day 0 (expired today) and today's
AdminTokens ==
  { Token(AdminEmail, AdminEmail, "ADMIN", SessionMaxAge),
    Token(AdminEmail, AdminEmail, "ADMIN", SessionMaxAge + SessionMaxAge) }

\* tokens Ann was given at earlier sign-ins, one for each role an
\* administrator gave her since, and one from a sign-in while deactivated
AnnTokens ==
  { Token(AnnEmail, AnnEmail, r, SessionMaxAge + SessionMaxAge) : r \in Roles }
  \cup { Token(ProviderSub, AnnEmail, Null, SessionMaxAge + SessionMaxAge) }

InitLast == Last("init", NoReq, NoProfile, NotRun, NotRun, Null, NoToken)

\* how many sign-ins run concurrently
MaxProcs == 2

Procs == 1..MaxProcs

\* a row of table users with its id and its unique email; the row a sign-in
\* creates takes the number of the creating process as id
AccountRow(id, email, role, isActive, lastLoginAt) ==
  [id |-> id, email |-> email, role |-> role, isActive |-> isActive,
   lastLoginAt |-> lastLoginAt]

\* the rows after seeding: the administrator, who has not signed in yet
SeededAccounts == { AccountRow(0, AdminEmail, "ADMIN", TRUE, 0) }

\* a sign-in that has not started: pc is its position, found what its account
\* lookup returned, lost whether its insert hit the unique index, result the
\* return value of a callback and status the status of the route's answer
NoCall ==
  [pc |-> "idle", path |-> Null, email |-> NullSeq, found |-> FALSE, lost |-> FALSE,
   result |-> Null, status |-> 0]

NoCalls == [p \in Procs |-> NoCall]

Init ==
  /\ env \in LifecycleEnvs
  /\ domains = DomainTable
  /\ \E annRow \in {NoRow} \cup { Row("Ann", Null, r, b, 0) : r \in Roles, b \in BOOLEAN } :
       users = SeededUsers(annRow)
  /\ tokens = AdminTokens
  /\ now = SessionMaxAge
  /\ last = InitLast
  /\ accounts = SeededAccounts
  /\ calls = NoCalls

InitGate ==
  /\ env \in GateEnvs
  /\ domains = DomainTable
  /\ users = SeededUsers(Row("Ann", Null, "USER", TRUE, SessionMaxAge))
  /\ tokens = AdminTokens \cup AnnTokens
  /\ now = SessionMaxAge
  /\ last = InitLast
  /\ accounts = SeededAccounts
  /\ calls = NoCalls

\* no operation is in progress: operations are taken one at a time
Idle == last.op = "init"

\* a state-changing operation may start
CanChange == now < SessionMaxAge + MaxOps

\* the outcome of the last operation has been delivered
Respond ==
  /\ ~Idle
  /\ last' = InitLast
  /\ UNCHANGED <<env, domains, users, tokens, now, accounts, calls>>

\* a deployment in which a handler runs whatever the middleware answered
ReachesAlways(request) == TRUE

\* the request reaches its route handler: it was sent to the handler directly,
\* or the middleware passed it on
Reaches(request) == ~request.viaMiddleware \/ middleware(env, request, now).kind = "next"

\* a request to a route that does not write
Served(op, request, res) ==
  /\ Idle
  /\ last' = Last(op, request, NoProfile, middleware(env, request, now),
                  IF Reaches(request) THEN res ELSE NotRun, Null, NoToken)
  /\ UNCHANGED <<env, domains, users, tokens, now, accounts, calls>>

\* a request to a route that writes; t is the time of the write
Written(op, request, handled, t) ==
  /\ Idle
  /\ last' = Last(op, request, NoProfile, middleware(env, request, now),
                  IF Reaches(request) THEN handled.res ELSE NotRun, Null, NoToken)
  /\ users' = IF Reaches(request) THEN handled.users ELSE users
  /\ now' = t
  /\ UNCHANGED <<env, domains, tokens, accounts, calls>>

HealthGet(request) ==
  /\ request.path = PathHealth
  /\ Served("healthGET", request, healthGET(env, request))

UsersMeGet(request) ==
  /\ request.path = PathUsersMe
  /\ Served("usersMeGET", request, usersMeGET(env, users, request, now))

UsersGet(request) ==
  /\ request.path = PathUsers
  /\ Served("usersGET", request, usersGET(env, request, now))

\* a path under /api/internal/admin: no handler of the repository serves one
AdminArea(request) ==
  /\ request.path = PathAdminArea
  /\ request.viaMiddleware
  /\ Served("adminArea", request, Json(404, "Not Found", Null, <<>>))

\* a NextAuth route: the middleware lets it through to NextAuth
NextAuthRoute(request) ==
  /\ request.path = PathNextAuth
  /\ request.viaMiddleware
  /\ Served("nextAuth", request, NotRun)

RolePatch(request) ==
  /\ CanChange
  /\ request.path = PathUserRole
  /\ Written("rolePATCH", request, rolePATCH(env, users, request, now + 1), now + 1)

UsersMePut(request) ==
  /\ CanChange
  /\ request.path = PathUsersMe
  /\ Written("usersMePUT", request, usersMePUT(env, users, request, now + 1), now + 1)

UsersAuthPost(request) ==
  /\ CanChange
  /\ request.path = PathUsersAuth
  /\ Written("usersAuthPOST", request,
             usersAuthPOST(env, domains, users, request, now + 1), now + 1)

\* one sign-in through the provider: the signIn callback and, when it returns
\* true, the jwt callback and the token NextAuth issues (fault 4: the store
\* call of the jwt callback rejects, and no token is issued)
SignedIn(op, profile, fault, r, t) ==
  LET token == IF r.result = "true" /\ fault # 4 THEN jwt(r.users, profile.email, t)
               ELSE NoToken
  IN /\ Idle
     /\ users' = r.users
     /\ tokens' = IF token.present THEN tokens \cup {token} ELSE tokens
     /\ now' = t
     /\ last' = Last(op, [NoReq EXCEPT !.fault = fault], profile, NotRun, NotRun,
                     IF r.result = "true" /\ fault = 4 THEN "throw" ELSE r.result, token)
     /\ UNCHANGED <<env, domains, accounts, calls>>

GoogleSignIn(profile, fault) ==
  /\ CanChange
  /\ SignedIn("signIn", profile, fault,
              signIn(env, domains, users, profile, now + 1, fault), now + 1)

GoogleSignInUpsert(profile, fault) ==
  /\ CanChange
  /\ SignedIn("signInUpsert", profile, fault,
              signInUpsert(env, domains, users, profile, now + 1, fault), now + 1)

\* a call of hasRole
HasRoleCall(userRole, requiredRole) ==
  /\ Idle
  /\ last' = Last("hasRole", NoReq, NoProfile, NotRun, NotRun,
                  <<userRole, requiredRole, hasRole(userRole, requiredRole)>>, NoToken)
  /\ UNCHANGED <<env, domains, users, tokens, now, accounts, calls>>

\* a call of one of the whitelist checks, or of extractDomain, on its own:
\* the email and the domain of the call are kept as those of an identity
HelperCall(op, email, domain, fault, outcome) ==
  /\ Idle
  /\ last' = Last(op, [NoReq EXCEPT !.fault = fault], Profile(email, Null, Null, domain),
                  NotRun, NotRun, outcome, NoToken)
  /\ UNCHANGED <<env, domains, users, tokens, now, accounts, calls>>

IsDomainWhitelistedCall(domain, fault) ==
  HelperCall("isDomainWhitelisted", NullSeq, domain, fault,
             isDomainWhitelisted(env, domains, domain, fault))

IsEmailFromWhitelistedDomainCall(email, fault) ==
  HelperCall("isEmailFromWhitelistedDomain", email, NullSeq, fault,
             IF isEmailFromWhitelistedDomain(domains, email, fault) THEN "true" ELSE "false")

\* the domain of the identity after the call is the domain extracted
ExtractDomainCall(email) == HelperCall("extractDomain", email, extractDomain(email), 0, Null)

\* a call of each of the role helpers isStaffRole, isManagerRole, isAdminRole
RoleHelpersCall(role) ==
  /\ Idle
  /\ last' = Last("roleHelpers", NoReq, NoProfile, NotRun, NotRun,
                  <<role, isStaffRole(role), isManagerRole(role), isAdminRole(role)>>, NoToken)
  /\ UNCHANGED <<env, domains, users, tokens, now, accounts, calls>>

Sessions == tokens \cup {NoToken}

\* requests of the lifecycle specification to the routes that only read: the
\* Hub's and the website's key, through the middleware and directly
LifecycleRequests(path) ==
  { Req(path, k, NullSeq, NullSeq, s, v, 0, NullSeq, NoBody) :
      k \in {HubKey, WebsiteKey}, s \in Sessions, v \in BOOLEAN }
  \cup { Req(path, HubKey, NullSeq, NullSeq, s, FALSE, 1, NullSeq, NoBody) : s \in Sessions }

RolePatchBody(role, isActive) == Body(NullSeq, Null, Null, role, isActive)

RolePatchRequests ==
  { Req(PathUserRole, HubKey, NullSeq, NullSeq, s, v, 0, AnnEmail, RolePatchBody(r, a)) :
      s \in Sessions, v \in BOOLEAN, r \in {"USER", "ADMIN"}, a \in {"undefined", "false"} }
  \cup { Req(PathUserRole, HubKey, NullSeq, NullSeq, s, FALSE, x[1], x[2], RolePatchBody(x[3], "true")) :
           s \in Sessions,
           x \in { <<0, ProviderSub, "USER">>, <<0, AnnEmail, "SUPER_ADMIN">>,
                   <<1, AnnEmail, "USER">>, <<2, AnnEmail, "USER">> } }
  \cup { Req(PathUserRole, k, NullSeq, NullSeq, s, FALSE, 0, AnnEmail,
             RolePatchBody("USER", "undefined")) :
           s \in Sessions, k \in {Null, "unknown-key", "constructor", WebsiteKey} }

\* updates of the caller's own profile: the name, the role, the isActive flag,
\* a role the schema refuses and one the store refuses; fault 1 is the update
\* rejecting
UsersMePutRequests ==
  { Req(PathUsersMe, HubKey, NullSeq, NullSeq, s, v, 0, NullSeq, Body(NullSeq, x[1], Null, x[2], x[3])) :
      s \in Sessions, v \in BOOLEAN,
      x \in { <<"Annie", Null, "undefined">>, <<Null, "ADMIN", "undefined">>,
              <<Null, Null, "false">>, <<Null, "ADMIN", "true">> } }
  \cup { Req(PathUsersMe, k, NullSeq, NullSeq, s, FALSE, x[1], NullSeq,
             Body(NullSeq, Null, Null, x[2], "false")) :
           s \in Sessions, k \in {HubKey, WebsiteKey},
           x \in { <<0, "USER">>, <<0, "SUPER_ADMIN">>, <<1, "ADMIN">> } }

UsersAuthBody(email, name, image) == Body(email, name, image, Null, "undefined")

UsersAuthRequests ==
  { Req(PathUsersAuth, HubKey, NullSeq, NullSeq, s, TRUE, 0, NullSeq,
        UsersAuthBody(m, "Annie", Null)) : s \in tokens, m \in {AnnEmail, NoAtEmail} }
  \cup
  { Req(PathUsersAuth, HubKey, NullSeq, NullSeq, NoToken, FALSE, 0, NullSeq,
        UsersAuthBody(m, "Annie", Null)) : m \in {AnnEmail, BobEmail, NoAtEmail, <<>>} }
  \cup { Req(PathUsersAuth, HubKey, NullSeq, NullSeq, NoToken, FALSE, f, NullSeq,
             UsersAuthBody(AnnEmail, "Annie", Null)) : f \in 1..3 }
  \cup { Req(PathUsersAuth, WebsiteKey, NullSeq, NullSeq, NoToken, FALSE, 0, NullSeq,
             UsersAuthBody(AnnEmail, "Annie", Null)),
         Req(PathUsersAuth, HubKey, NullSeq, NullSeq, NoToken, TRUE, 0, NullSeq,
             UsersAuthBody(AnnEmail, "Annie", Null)),
         Req(PathUsersAuth, HubKey, NullSeq, NullSeq, NoToken, FALSE, 0, NullSeq,
             UsersAuthBody(AnnEmail, Null, "pic")) }

\* the sign-ins explored: every identity without a store fault, and Ann's
\* with each store call of the sign-in rejecting in turn
SignIns ==
  { <<p, 0>> : p \in Profiles }
  \cup { <<Profile(AnnEmail, "Annie", Null, NullSeq), f>> : f \in 1..4 }

Next ==
  \/ Idle /\ \E x \in SignIns : GoogleSignIn(x[1], x[2])
  \/ Idle /\ \E x \in SignIns : GoogleSignInUpsert(x[1], x[2])
  \/ Idle /\ \E r \in UsersAuthRequests : UsersAuthPost(r)
  \/ Idle /\ \E r \in RolePatchRequests : RolePatch(r)
  \/ Idle /\ \E r \in UsersMePutRequests : UsersMePut(r)
  \/ Idle /\ \E r \in LifecycleRequests(PathUsersMe) : UsersMeGet(r)
  \/ Idle /\ \E r \in LifecycleRequests(PathUsers) : UsersGet(r)
  \/ Respond

Spec == Init /\ [][Next]_vars

\* requests of the gate specification: every header combination (the Referer
\* header is read only when there is no Origin header)
GateRequests(path, direct) ==
  { Req(path, k, o[1], o[2], s, v, 0, NullSeq, NoBody) :
      k \in ApiKeyHeaders,
      o \in { <<x, NullSeq>> : x \in OriginHeaders } \cup { <<NullSeq, x>> : x \in RefererHeaders },
      s \in Sessions, v \in direct }

NextGate ==
  \/ Idle /\ \E r \in GateRequests(PathHealth, BOOLEAN) : HealthGet(r)
  \/ Idle /\ \E r \in GateRequests(PathUsersMe, BOOLEAN) : UsersMeGet(r)
  \/ Idle /\ \E r \in GateRequests(PathUsers, BOOLEAN) : UsersGet(r)
  \/ Idle /\ \E r \in GateRequests(PathAdminArea, {TRUE}) : AdminArea(r)
  \/ Idle /\ \E r \in GateRequests(PathNextAuth, {TRUE}) : NextAuthRoute(r)
  \/ Idle /\ \E u \in Roles, q \in Roles : HasRoleCall(u, q)
  \/ Idle /\ \E r \in Roles : RoleHelpersCall(r)
  \/ Respond

SpecGate == InitGate /\ [][NextGate]_vars

\* sign-in requests with an email of each domain and of each shape, sent to the
\* handler with the Hub's key; fault 1 is the whitelist lookup rejecting
WhitelistRequests ==
  { Req(PathUsersAuth, HubKey, NullSeq, NullSeq, NoToken, FALSE, f, NullSeq,
        UsersAuthBody(m, "N", Null)) : m \in Emails \cup {<<>>}, f \in 0..1 }

\* identities of each domain, without and with a workspace domain
WhitelistSignIns ==
  { <<Profile(m, "N", Null, NullSeq), f>> : m \in {AnnEmail, BobEmail, CatEmail, OldEmail},
                                            f \in 0..1 }
  \cup { <<Profile(BobEmail, "N", Null, hd), 0>> : hd \in {Partner, OldCompany} }

NextWhitelist ==
  \/ Idle /\ \E d \in DOMAIN DomainTable, f \in 0..1 : IsDomainWhitelistedCall(d, f)
  \/ Idle /\ \E m \in Emails, f \in 0..1 : IsEmailFromWhitelistedDomainCall(m, f)
  \/ Idle /\ \E m \in Emails : ExtractDomainCall(m)
  \/ Idle /\ \E r \in WhitelistRequests : UsersAuthPost(r)
  \/ Idle /\ \E x \in WhitelistSignIns : GoogleSignIn(x[1], x[2])
  \/ Idle /\ \E x \in WhitelistSignIns : GoogleSignInUpsert(x[1], x[2])
  \/ Respond

SpecWhitelist == Init /\ [][NextWhitelist]_vars

\* Ann signed in MaxOps days after the seeding and holds the token of that
\* sign-in, which carries the role she had and expires maxAge later
InitStale ==
  /\ env \in LifecycleEnvs
  /\ domains = DomainTable
  /\ \E r \in Roles :
       /\ users = SeededUsers(Row("Ann", Null, r, TRUE, MaxOps))
       /\ tokens = AdminTokens \cup {jwt(users, AnnEmail, MaxOps)}
  /\ now = SessionMaxAge
  /\ last = InitLast
  /\ accounts = SeededAccounts
  /\ calls = NoCalls

SpecStale == InitStale /\ [][Next]_vars

----------------------------------------------------------------------------
(* Concurrent sign-ins: each store call of a sign-in is one step, and the     *)
(* calls of different sign-ins interleave.                                    *)

InitRace ==
  /\ env \in LifecycleEnvs
  /\ domains = DomainTable
  /\ users = SeededUsers(NoRow)
  /\ tokens = AdminTokens
  /\ now = SessionMaxAge
  /\ last = InitLast
  /\ accounts = SeededAccounts
  /\ calls = NoCalls

\* the sign-in paths: the two forms of the signIn callback and the sign-in route
RacePaths == {"signIn", "signInUpsert", "usersAuthPOST"}

\* the emails that sign in concurrently: a brand-new one and an existing one of
\* a whitelisted domain, and one of a domain that is not whitelisted
RaceEmails == {AnnEmail, AdminEmail, BobEmail}

\* the rows with the given email
RowsOf(rows, email) == { r \in rows : r.email = email }

\* a table users whose email column carries no unique index
NoUniqueIndex(rows, email) == FALSE

\* the unique index on users.email rejects an insert of the email
UniqueViolation(rows, email) == RowsOf(rows, email) # {}

\* the call is over: a callback has returned result, the route has answered status
Finished(c, result, status) == [c EXCEPT !.pc = "done", !.result = result, !.status = status]

\* a sign-in arrives
RaceStart(p, path, email) ==
  /\ calls[p].pc = "idle"
  /\ calls' = [calls EXCEPT ![p] = [NoCall EXCEPT !.pc = "whitelist", !.path = path,
                                                   !.email = email]]
  /\ UNCHANGED <<env, domains, users, tokens, now, last, accounts>>

\* the whitelist lookup.  The upsert of the upsert form then runs either as one
\* statement of the database or as a lookup followed by a write, as the
\* client library decides.
RaceWhitelist(p) ==
  LET c == calls[p]
      isWhitelisted ==
        IF c.path = "usersAuthPOST"
          THEN findFirstActiveDomain(domains, Second(Split(c.email, "@")))
          ELSE isDomainWhitelisted(env, domains, extractDomain(c.email), 0) = "true"
  IN /\ c.pc = "whitelist"
     /\ \E next \in IF c.path = "signInUpsert" THEN {"upsert", "find"} ELSE {"find"} :
          calls' = [calls EXCEPT ![p] =
                      IF isWhitelisted THEN [c EXCEPT !.pc = next]
                      ELSE IF c.path = "usersAuthPOST" THEN Finished(c, Null, 403)
                      ELSE Finished(c, "false", 0)]
     /\ UNCHANGED <<env, domains, users, tokens, now, last, accounts>>

\* the account lookup (findUnique by email), and for the route its tests of
\* the row found
RaceFind(p) ==
  LET c == calls[p]
      existing == RowsOf(accounts, c.email)
      refused == /\ c.path = "usersAuthPOST"
                 /\ \E r \in existing : ~r.isActive \/ r.role = "PENDING"
  IN /\ c.pc = "find"
     /\ calls' = [calls EXCEPT ![p] =
                    IF refused THEN Finished(c, Null, 403)
                    ELSE [c EXCEPT !.pc = "write", !.found = existing # {}]]
     /\ UNCHANGED <<env, domains, users, tokens, now, last, accounts>>

\* the write the lookup calls for: an update of the row found, or an insert,
\* which the unique index rejects when a row with the email exists by now;
\* the rejection is caught with every other store error
RaceWrite(p) ==
  LET c == calls[p]
      role == IF c.path = "signInUpsert" THEN UpsertUserRole ELSE NewUserRole
  IN /\ c.pc = "write"
     /\ IF c.found
          THEN /\ accounts' = { IF r.email = c.email THEN [r EXCEPT !.lastLoginAt = now] ELSE r :
                                r \in accounts }
               /\ calls' = [calls EXCEPT ![p] =
                              IF c.path = "usersAuthPOST" THEN Finished(c, Null, 200)
                              ELSE Finished(c, "true", 0)]
        ELSE IF UniqueViolation(accounts, c.email)
          THEN /\ accounts' = accounts
               /\ calls' = [calls EXCEPT ![p] =
                              [(IF c.path = "usersAuthPOST" THEN Finished(c, Null, 500)
                                ELSE Finished(c, "false", 0)) EXCEPT !.lost = TRUE]]
        ELSE /\ accounts' = accounts \cup {AccountRow(p, c.email, role, TRUE, now)}
             /\ calls' = [calls EXCEPT ![p] =
                            IF c.path = "usersAuthPOST" THEN Finished(c, Null, 403)
                            ELSE Finished(c, "true", 0)]
     /\ UNCHANGED <<env, domains, users, tokens, now, last>>

\* the upsert as one statement of the database
RaceUpsert(p) ==
  LET c == calls[p]
  IN /\ c.pc = "upsert"
     /\ accounts' =
          IF UniqueViolation(accounts, c.email)
            THEN { IF r.email = c.email THEN [r EXCEPT !.lastLoginAt = now] ELSE r :
                   r \in accounts }
            ELSE accounts \cup {AccountRow(p, c.email, UpsertUserRole, TRUE, now)}
     /\ calls' = [calls EXCEPT ![p] = Finished(c, "true", 0)]
     /\ UNCHANGED <<env, domains, users, tokens, now, last>>

NextRace ==
  \/ \E p \in Procs, path \in RacePaths, email \in RaceEmails : RaceStart(p, path, email)
  \/ \E p \in Procs : RaceWhitelist(p)
  \/ \E p \in Procs : RaceFind(p)
  \/ \E p \in Procs : RaceWrite(p)
  \/ \E p \in Procs : RaceUpsert(p)

SpecRace == InitRace /\ [][NextRace]_vars

----------------------------------------------------------------------------
(* Properties of the gate, checked under SpecGate *)

\* the operations that go through the gate
GateOps == {"healthGET", "usersMeGET", "usersGET", "adminArea", "nextAuth"}

\* the operations on Internal routes
InternalOps == {"usersMeGET", "usersGET", "adminArea"}

\* the one configuration in which validateApiAccess is documented to skip its
\* checks: development, with no Hub key set
BypassConfig(e) == e.NODE_ENV = "development" /\ e.HUB_API_KEY \in {Null, ""}

\* validateApiAccess denies the request for its missing key, for both route classes
DeniesKeyRequired(e, request) ==
  \A rt \in RouteTypes :
    LET v == validateApiAccess(e, request, rt)
    IN ~v.isValid /\ ~v.threw /\ v.error = ErrKeyRequired

\* a 401 answer carrying the given reason
Answers401(res, text) == res.kind = "response" /\ res.status = 401 /\ res.text = text

ExternalOnlyKey(e, request) ==
  Truthy(request.apiKey) /\ RegistryEntry(e, request.apiKey) = "WEBSITE"

\* the request is denied on an Internal route for its route class, and no
\* handler answers it otherwise
DeniedForRouteClass ==
  /\ LET v == validateApiAccess(env, last.req, "internal")
     IN ~v.isValid /\ ~v.threw /\ v.error = ErrRouteClass("internal")
  /\ Answers401(last.mw, ErrRouteClass("internal"))
  /\ last.res = NotRun \/ Answers401(last.res, ErrRouteClass("internal"))

ConfiguredKeys(e) ==
  { k \in {e.HUB_API_KEY, e.WEBSITE_API_KEY, e.DEV_API_KEY} : Truthy(k) }

\* the middleware's answer when the checks are made in the order missing key,
\* unknown key, route class, origin (strict mode), session, role, the first
\* failure is reported and no later check is made
FirstFailure(e, request, t) ==
  LET key == request.apiKey
      rt == MiddlewareRouteType(request.path)
      token == getToken(request, t)
  IN IF ~Truthy(key) THEN Json(401, ErrKeyRequired, "UNAUTHORIZED", <<"key">>)
     ELSE IF key \notin ConfiguredKeys(e)
       THEN Json(401, ErrInvalidKey, "UNAUTHORIZED", <<"key", "registry">>)
     ELSE IF rt \notin ACCESS_LEVELS(e, key).items
       THEN Json(401, ErrRouteClass(rt), "UNAUTHORIZED", <<"key", "registry", "routeClass">>)
     ELSE IF OriginDenied(e, key, HeaderOrigin(request))
       THEN Json(401, ErrOrigin, "UNAUTHORIZED", <<"key", "registry", "routeClass", "origin">>)
     ELSE IF rt = "external" THEN Next0(<<"key", "registry", "routeClass", "origin">>)
     ELSE IF ~token.present
       THEN Json(401, MsgAuthRequired, Null,
                 <<"key", "registry", "routeClass", "origin", "session">>)
     ELSE IF MiddlewareAdminDenied(request.path, token)
       THEN Json(403, MsgAdminRequired, Null,
                 <<"key", "registry", "routeClass", "origin", "session", "role">>)
     ELSE Next0(<<"key", "registry", "routeClass", "origin", "session", "role">>)

\* C3: outside the development bypass, the gate makes its checks in the order
\* missing key, unknown key, route class, origin (strict mode), session, role
\* and stops at the first failure: the reason reported is that of the earliest
\* failing check and no later check is made.
C3_FirstFailureReported ==
  (last.op \in GateOps \ {"nextAuth"} /\ ~BypassConfig(env)) =>
    last.mw = FirstFailure(env, last.req, now)

\* rank of a role in the order PENDING < READONLY < USER < STAFF < MANAGER < ADMIN
rank ==
  [r \in Roles |->
     CASE r = "PENDING" -> 0 [] r = "READONLY" -> 1 [] r = "USER" -> 2
       [] r = "STAFF" -> 3 [] r = "MANAGER" -> 4 [] r = "ADMIN" -> 5]

\* C5: for every pair of roles of {PENDING, READONLY, USER, STAFF, MANAGER,
\* ADMIN}, hasRole(sessionRole, requiredRole) is true exactly when
\* rank(sessionRole) >= rank(requiredRole); and the ADMIN gates of the list
\* endpoint and of the middleware's admin area let a session through exactly
\* when its role has the rank of ADMIN, and otherwise answer 403.
C5_RoleCheckMonotone ==
  /\ last.op = "hasRole" =>
       (last.result[3] <=> rank[last.result[1]] >= rank[last.result[2]])
  /\ (/\ last.op \in {"usersGET", "adminArea"}
      /\ validateApiAccess(env, last.req, "internal").isValid
      /\ getToken(last.req, now).present
      /\ last.req.session.role \in Roles) =>
       LET decision == IF last.op = "usersGET" THEN last.res ELSE last.mw
       IN IF rank[last.req.session.role] >= rank["ADMIN"]
            THEN decision.status # 403
            ELSE decision.status = 403

----------------------------------------------------------------------------
(* Properties of sessions and of the account lifecycle, checked under Spec *)

\* the handlers of Internal routes that require a session
SessionOps == {"usersMeGET", "usersGET", "rolePATCH"}

\* the sign-in paths: the two forms of the signIn callback and the sign-in route
SignInCallbacks == {"signIn", "signInUpsert"}

\* the time at which the last request was made (a write takes a day)
RequestTime == IF last.op \in {"rolePATCH", "usersAuthPOST"} THEN now - 1 ELSE now

\* the request has no valid session: no token, or one that had expired when
\* the request was made
NoValidSession(request, t) == ~getToken(request, t).present

\* a 401 answer with an 'Authentication required' reason
AuthRequired401(res) ==
  /\ res.kind = "response"
  /\ res.status = 401
  /\ res.text \in {MsgAuthRequired, ErrAuthRequiredSignIn}

\* C4: on every Internal route that requires a session (the middleware, GET
\* /api/internal/users/me, GET /api/internal/users, PATCH of a user's role), a
\* request with a valid Internal-class key and no valid session (missing or
\* expired token) is answered 401 'Authentication required', never 403 and
\* never allowed.
C4_NoSessionIs401 ==
  (/\ last.op \in SessionOps
   /\ validateApiAccess(env, last.req, "internal").isValid
   /\ NoValidSession(last.req, RequestTime)) =>
    /\ AuthRequired401(last.mw)
    /\ last.res = NotRun \/ AuthRequired401(last.res)

\* C6: a request to an Internal route with a valid Internal-class key and the
\* session minted for an account whose role was and still is PENDING is denied
\* (answered 401 or 403 by the middleware or by the handler); GET
\* /api/internal/users/me does not return the profile.
C6_PendingSessionDenied ==
  (/\ last.op \in SessionOps
   /\ validateApiAccess(env, last.req, "internal").isValid
   /\ getToken(last.req, now).present
   /\ last.req.session.role = "PENDING"
   /\ last.req.session.sub = last.req.session.email
   /\ users[last.req.session.email].exists
   /\ users[last.req.session.email].role = "PENDING") =>
    LET answer == IF last.res = NotRun THEN last.mw ELSE last.res
    IN answer.kind = "response" /\ answer.status \in {401, 403}

\* the domain is whitelisted: it is in the environment allow-list or the
\* store holds an active entry for it
Whitelisted(e, doms, domain) ==
  /\ domain # NullSeq
  /\ \/ \E i \in 1..Len(e.API_DOMAIN_WHITELIST) : e.API_DOMAIN_WHITELIST[i] = domain
     \/ domain \in DOMAIN doms /\ doms[domain] = "active"

\* the domain a sign-in callback takes from the identity
CallbackDomain(profile) == OrElseSeq(profile.hd, extractDomain(profile.email))

\* the step is a sign-in through a callback / through the sign-in route that
\* reached its handler
CallbackStep == last'.op \in SignInCallbacks

RouteStep == last'.op = "usersAuthPOST" /\ last'.res # NotRun

\* the email of the sign-in the step makes
SignInEmail == IF last'.op = "usersAuthPOST" THEN last'.req.body.email ELSE last'.profile.email

\* the sign-in of the step is rejected
Rejected ==
  IF last'.op = "usersAuthPOST" THEN last'.res.status # 200
  ELSE last'.result # "true" /\ tokens' = tokens

\* C7: a sign-in (callback or POST /api/internal/users/auth) whose domain is
\* not whitelisted is rejected and leaves the account store unchanged: no row
\* is created and no field of an existing row is modified.
C7_NotWhitelistedNoWrite ==
  [][ /\ (CallbackStep /\ ~Whitelisted(env, domains, CallbackDomain(last'.profile))) =>
           (Rejected /\ users' = users)
      /\ (RouteStep /\ ~Whitelisted(env, domains, extractDomain(last'.req.body.email))) =>
           (Rejected /\ users' = users) ]_vars

\* C8: whenever a sign-in (either form of the callback, or the sign-in route)
\* creates an account, the created account has role PENDING, isActive = true
\* and lastLoginAt set to the time of the sign-in.
C8_CreatedAccountIsPending ==
  [][ (CallbackStep \/ RouteStep) =>
        \A m \in Emails :
          (~users[m].exists /\ users'[m].exists) =>
            /\ users'[m].role = "PENDING"
            /\ users'[m].isActive
            /\ users'[m].lastLoginAt = now' ]_vars

\* C9: for an existing account with isActive = false, of any role, every
\* sign-in (callback or sign-in route) is rejected and the account keeps every
\* field it had before the attempt.
C9_InactiveAccountFrozen ==
  [][ ((CallbackStep \/ RouteStep)
       /\ SignInEmail \in Emails
       /\ users[SignInEmail].exists /\ ~users[SignInEmail].isActive) =>
        (Rejected /\ users'[SignInEmail] = users[SignInEmail]) ]_vars

----------------------------------------------------------------------------
(* Properties of concurrent sign-ins, checked under SpecRace.                 *)

\* every sign-in in flight is for the email, and all of them are over
AllSignedInAs(email) ==
  \A p \in Procs : calls[p].pc = "done" /\ calls[p].email = email

\* C11: however the store calls of concurrent sign-ins interleave, no two rows
\* of table users share an email, and once concurrent sign-ins with the same
\* brand-new whitelisted email are all over the table holds exactly one row
\* with that email.
C11_OneRowPerEmail ==
  /\ \A r1, r2 \in accounts : r1.email = r2.email => r1 = r2
  /\ AllSignedInAs(AnnEmail) => Cardinality(RowsOf(accounts, AnnEmail)) = 1

\* concurrent sign-ins with the brand-new email are over, one of them had its
\* insert rejected by the unique index, and one row exists
C11_Witness ==
  /\ AllSignedInAs(AnnEmail)
  /\ \E p \in Procs : calls[p].lost
  /\ Cardinality(RowsOf(accounts, AnnEmail)) = 1

\* C12: a sign-in whose insert is rejected by the unique index goes on as a
\* sign-in against the row that exists: its callback returns true, its route
\* does not answer 500.
C12_RaceLoserSignsIn ==
  \A p \in Procs :
    calls[p].pc = "done" /\ calls[p].lost =>
      IF calls[p].path = "usersAuthPOST" THEN calls[p].status # 500
      ELSE calls[p].result = "true"

----------------------------------------------------------------------------
(* Properties of store errors during a sign-in, checked under Spec.           *)

\* the step is a sign-in one of whose store calls (whitelist lookup, account
\* lookup, create or update) rejected: the call that request.fault names is
\* one the sign-in gets to
StoreErrorRaised ==
  \/ last'.op = "signIn" /\ last'.req.fault \in 1..3
  \/ last'.op = "signInUpsert" /\ last'.req.fault \in 1..2
  \/ /\ RouteStep
     /\ \/ last'.req.fault \in 1..2
        \/ /\ last'.req.fault = 3
           /\ LET existingUser == users[last'.req.body.email]
              IN existingUser.exists => existingUser.isActive /\ existingUser.role # "PENDING"

\* the sign-in of the step ends as the generic rejection: the callback returns
\* false, the route answers 500 "Authentication service unavailable"
RejectedAsUnavailable ==
  IF last'.op = "usersAuthPOST"
    THEN last'.res.kind = "response" /\ last'.res.status = 500 /\ last'.res.text = ErrUnavailable
    ELSE last'.result = "false" /\ tokens' = tokens

\* C13: a store error at any step of a sign-in (whitelist lookup, account
\* lookup, create or update) ends the sign-in as the generic rejection, no
\* exception escapes, and the account store is left as it was.
C13_StoreErrorRejects ==
  [][ StoreErrorRaised => RejectedAsUnavailable /\ users' = users ]_vars

----------------------------------------------------------------------------
(* Properties of the whitelist checks, checked under SpecWhitelist.           *)

\* how many '@' the email has
AtCount(email) == Cardinality({ i \in 1..Len(email) : email[i] = "@" })

\* the whole of the email after its first '@'
AfterAt(email) ==
  LET i == CHOOSE k \in 1..Len(email) : email[k] = "@" /\ \A j \in 1..(k - 1) : email[j] # "@"
  IN SubSeq(email, i + 1, Len(email))

\* the step is a call of the helper on its own
HelperStep(op) == last'.op = op

\* the sign-in route of the step took the domain of its email as whitelisted:
\* it got past its whitelist test
RoutePassedWhitelist ==
  last'.res.kind = "response" /\ last'.res.status # 400 /\ last'.res.text # ErrDomain

\* C14: every whitelist check of a sign-in path (isDomainWhitelisted of the
\* callbacks, the lookup of POST /api/internal/users/auth,
\* isEmailFromWhitelistedDomain), when its store lookup does not fail, takes a
\* domain as whitelisted exactly when the domain is in the environment list or
\* has an active row in the store.
C14_WhitelistedIffEnvOrActive ==
  [][ /\ (HelperStep("isDomainWhitelisted") /\ last'.req.fault = 0) =>
           ((last'.result = "true") <=> Whitelisted(env, domains, last'.profile.hd))
      /\ (HelperStep("isEmailFromWhitelistedDomain") /\ last'.req.fault = 0
            /\ AtCount(last'.profile.email) = 1) =>
           ((last'.result = "true") <=>
              Whitelisted(env, domains, AfterAt(last'.profile.email)))
      /\ (CallbackStep /\ last'.req.fault = 0) =>
           ((last'.result = "true") <=>
              Whitelisted(env, domains, CallbackDomain(last'.profile)))
      /\ (RouteStep /\ last'.req.fault = 0 /\ AtCount(last'.req.body.email) = 1) =>
           (RoutePassedWhitelist <=>
              Whitelisted(env, domains, AfterAt(last'.req.body.email))) ]_vars

\* C15: a whitelist check whose store lookup raises an error returns false
\* and does not throw.
C15_WhitelistFailsClosed ==
  [][ /\ (HelperStep("isDomainWhitelisted") /\ last'.req.fault = 1
            /\ \A i \in 1..Len(env.API_DOMAIN_WHITELIST) :
                 env.API_DOMAIN_WHITELIST[i] # last'.profile.hd) =>
           last'.result = "false"
      /\ (HelperStep("isEmailFromWhitelistedDomain") /\ last'.req.fault = 1
            /\ AtCount(last'.profile.email) = 1) =>
           last'.result = "false" ]_vars

\* C16: extractDomain gives the whole of an email with exactly one '@' after
\* the '@'; a whitelist check or a sign-in for an email with no '@' or with
\* two or more is rejected without a store call: the check returns false, the
\* route rejects without a store error and without reading or writing the
\* account store.
C16_ExactlyOneAt ==
  [][ /\ (HelperStep("extractDomain") /\ AtCount(last'.profile.email) = 1) =>
           last'.profile.hd = AfterAt(last'.profile.email)
      /\ (HelperStep("isEmailFromWhitelistedDomain") /\ AtCount(last'.profile.email) # 1) =>
           last'.result = "false"
      /\ (RouteStep /\ last'.res.kind = "response" /\ AtCount(last'.req.body.email) # 1) =>
           /\ last'.res.status \in 400..499
           /\ last'.res.text \notin {ErrCreated, ErrPending, ErrDeactivated}
           /\ users' = users ]_vars

----------------------------------------------------------------------------
(* Properties of the tokens issued, checked under Spec.                       *)

\* C17: every token issued at a sign-in carries the role the account has in
\* the store at that moment, so that after a change of the role of an account
\* the token of its next sign-in carries the new role.
C17_TokenCarriesStoreRole ==
  [][ (CallbackStep /\ last'.token.present) =>
        /\ users'[last'.profile.email].exists
        /\ last'.token.role = users'[last'.profile.email].role ]_vars

----------------------------------------------------------------------------
(* Properties of the origin check and of External routes, checked under       *)
(* SpecGate.                                                                  *)

\* the operations that go through validateApiAccess
KeyCheckedOps == {"healthGET", "usersMeGET", "usersGET", "adminArea"}

\* the route class of the request's path
RouteClass(request) == IF IsPrefix(<<"api", "internal">>, request.path) THEN "internal" ELSE "external"

\* the request presents a registered key that allows the route class of its path
RightKey(e, request) ==
  /\ Truthy(request.apiKey)
  /\ RegistryEntry(e, request.apiKey) \in {"HUB", "WEBSITE", "DEV"}
  /\ RouteClass(request) \in ACCESS_LEVELS(e, request.apiKey).items

\* the request has an Origin or a Referer, and it matches none of the origin
\* patterns of its key
OriginMismatch(e, request) ==
  /\ TruthySeq(OrElseSeq(request.origin, request.referer))
  /\ ~isOriginAllowed(ALLOWED_ORIGINS(e, request.apiKey).items,
                      OrElseSeq(request.origin, request.referer))

\* the request is denied for its origin by validateApiAccess, by the
\* middleware and by the handler when it is reached
DeniedForOrigin ==
  /\ LET v == validateApiAccess(env, last.req, RouteClass(last.req))
     IN ~v.isValid /\ ~v.threw /\ v.error = ErrOrigin
  /\ Answers401(last.mw, ErrOrigin)
  /\ last.res = NotRun \/ Answers401(last.res, ErrOrigin)

\* validateApiAccess finds the request valid; neither the middleware nor the
\* handler answers with the origin reason
NotDeniedForOrigin ==
  /\ LET v == validateApiAccess(env, last.req, RouteClass(last.req))
     IN v.isValid /\ ~v.threw
  /\ ~Answers401(last.mw, ErrOrigin)
  /\ ~Answers401(last.res, ErrOrigin)

\* C18: with NODE_ENV = 'production', every request with a registered key of
\* the right route class whose Origin (or Referer) is present and matches none
\* of the key's origin patterns is denied with 'Origin not allowed for this
\* API key.'; with any other NODE_ENV the same request is not denied for its
\* origin.
C18_OriginMismatchDeniedInProduction ==
  (last.op \in KeyCheckedOps /\ RightKey(env, last.req) /\ OriginMismatch(env, last.req)) =>
    IF env.NODE_ENV = "production" THEN DeniedForOrigin ELSE NotDeniedForOrigin

\* C18: in production the profile handler has been asked, through the
\* middleware, with the Hub's key from a foreign origin, and the middleware
\* has answered 401 with the origin reason
C18_Witness ==
  /\ last.op = "usersMeGET"
  /\ last.req.viaMiddleware
  /\ env.NODE_ENV = "production"
  /\ last.req.apiKey = HubKey /\ RegistryEntry(env, HubKey) = "HUB"
  /\ last.req.origin = <<"https://evil.example">>
  /\ Answers401(last.mw, ErrOrigin)
  /\ last.res = NotRun

\* C19: a request that has neither an Origin nor a Referer header and a
\* registered key of the right route class is valid for validateApiAccess, in
\* production and in every other mode; it is never denied for its origin.
C19_NoOriginNotDenied ==
  (/\ last.op \in KeyCheckedOps
   /\ RightKey(env, last.req)
   /\ last.req.origin = NullSeq /\ last.req.referer = NullSeq) =>
    NotDeniedForOrigin

\* C19: in production the health handler has answered 200 to a request with
\* the website's key and neither header
C19_Witness ==
  /\ last.op = "healthGET"
  /\ env.NODE_ENV = "production"
  /\ last.req.apiKey = WebsiteKey /\ RegistryEntry(env, WebsiteKey) = "WEBSITE"
  /\ last.req.origin = NullSeq /\ last.req.referer = NullSeq
  /\ last.res.kind = "response" /\ last.res.status = 200

\* C20: on an External route the decision does not depend on the session: the
\* middleware and the handler answer as they answer the same request without
\* a session, and a request with a registered key that allows 'external' and
\* an acceptable origin is let through and served, whatever its session.
C20_ExternalIgnoresSession ==
  last.op = "healthGET" =>
    /\ last.mw = middleware(env, [last.req EXCEPT !.session = NoToken], now)
    /\ last.res # NotRun => last.res = healthGET(env, [last.req EXCEPT !.session = NoToken])
    /\ (/\ RightKey(env, last.req)
        /\ env.NODE_ENV = "production" => ~OriginMismatch(env, last.req)) =>
         /\ last.mw.kind = "next"
         /\ last.res # NotRun => last.res.kind = "response" /\ last.res.status = 200

\* C20: the health route has been asked through the middleware with the
\* website's key and the session of a pending account, and has answered 200
C20_Witness ==
  /\ last.op = "healthGET"
  /\ last.req.viaMiddleware
  /\ last.req.apiKey = WebsiteKey /\ RegistryEntry(env, WebsiteKey) = "WEBSITE"
  /\ last.req.session.present /\ last.req.session.role = "PENDING"
  /\ last.mw.kind = "next"
  /\ last.res.kind = "response" /\ last.res.status = 200

----------------------------------------------------------------------------
(* Properties of the sign-in of existing accounts, checked under Spec.        *)

\* the step is a sign-in, with no store error, for an account that exists
\* with the given activity and one of the given roles, from a whitelisted
\* domain; a sign-in through the route presents a valid API key
SignInOfExisting(active, roles) ==
  /\ last'.req.fault = 0
  /\ \/ CallbackStep /\ Whitelisted(env, domains, CallbackDomain(last'.profile))
     \/ /\ RouteStep
        /\ validateApiAccess(env, last'.req, "internal").isValid
        /\ TruthySeq(SignInEmail)
        /\ Whitelisted(env, domains, extractDomain(SignInEmail))
  /\ users[SignInEmail].exists
  /\ users[SignInEmail].isActive = active
  /\ users[SignInEmail].role \in roles

\* C21: a sign-in, through a callback or through POST
\* /api/internal/users/auth, of an active account with role PENDING from a
\* whitelisted domain completes and sets lastLoginAt to the time of the
\* sign-in, and leaves the role PENDING.
C21_PendingSignInRecorded ==
  [][ SignInOfExisting(TRUE, {"PENDING"}) =>
        /\ CallbackStep => last'.result = "true"
        /\ users'[SignInEmail].lastLoginAt = now'
        /\ users'[SignInEmail].role = "PENDING" ]_vars

----------------------------------------------------------------------------
(* Properties of POST /api/internal/users/auth, checked under SpecWhitelist.  *)

\* the sign-in request of the step has a valid API key and an email of a
\* whitelisted domain, and no store call fails
AcceptableSignInRequest ==
  /\ RouteStep
  /\ last'.req.fault = 0
  /\ validateApiAccess(env, last'.req, "internal").isValid
  /\ TruthySeq(SignInEmail)
  /\ Whitelisted(env, domains, extractDomain(SignInEmail))

\* C22: POST /api/internal/users/auth answers 200 exactly when the API key is
\* valid, the domain of the email is whitelisted and an account with the email
\* exists with isActive = true and a role among USER, STAFF, MANAGER, ADMIN;
\* for a deactivated account, a PENDING account and a new account it answers
\* 403, the row of the new account being created with role PENDING.
C22_RouteAnswers ==
  [][ /\ (RouteStep /\ last'.req.fault = 0) =>
           ((last'.res.kind = "response" /\ last'.res.status = 200) <=>
              /\ AcceptableSignInRequest
              /\ users[SignInEmail].exists /\ users[SignInEmail].isActive
              /\ users[SignInEmail].role \in {"USER", "STAFF", "MANAGER", "ADMIN"})
      /\ (/\ AcceptableSignInRequest
          /\ users[SignInEmail].exists
          /\ ~users[SignInEmail].isActive \/ users[SignInEmail].role = "PENDING") =>
           last'.res.status = 403
      /\ (AcceptableSignInRequest /\ ~users[SignInEmail].exists) =>
           /\ last'.res.status = 403
           /\ users'[SignInEmail].exists /\ users'[SignInEmail].role = "PENDING" ]_vars

----------------------------------------------------------------------------
(* Properties of the role helpers, checked under SpecGate.                    *)

\* C23: the role helpers agree with the order PENDING < READONLY < USER <
\* STAFF < MANAGER < ADMIN: isStaffRole(r) exactly when r is at least STAFF,
\* isManagerRole(r) exactly when r is at least MANAGER, isAdminRole(r) exactly
\* when r is ADMIN; so isAdminRole implies isManagerRole implies isStaffRole,
\* and STAFF passes the staff test and fails the manager test.
C23_RoleHelpersFollowOrder ==
  last.op = "roleHelpers" =>
    LET r == last.result[1]
        staff == last.result[2]
        manager == last.result[3]
        admin == last.result[4]
    IN /\ staff <=> rank[r] >= rank["STAFF"]
       /\ manager <=> rank[r] >= rank["MANAGER"]
       /\ admin <=> r = "ADMIN"
       /\ (admin => manager) /\ (manager => staff)
       /\ r = "STAFF" => staff /\ ~manager

\* C23: the helpers have been called for STAFF: the staff test passed, the
\* manager and the admin test failed
C23_Witness ==
  /\ last.op = "roleHelpers"
  /\ last.result = <<"STAFF", TRUE, FALSE, FALSE>>

----------------------------------------------------------------------------
(* Properties of tokens and role changes, checked under SpecStale.            *)

\* the answer to the request of the step: the handler's, or the middleware's
\* when the handler was not reached
Answer == IF last'.res = NotRun THEN last'.mw ELSE last'.res

\* the step is a request to an Internal route with a valid key and a session
\* token, and no store call fails
SessionStep ==
  /\ last'.op \in SessionOps
  /\ last'.req.fault = 0
  /\ last'.req.session.present
  /\ validateApiAccess(env, last'.req, "internal").isValid

\* every token expires at most maxAge after now
LifetimeBounded == \A tk \in tokens : tk.exp <= now + SessionMaxAge

\* a token that has not expired is accepted whatever the store says of its
\* account by now: any token on the profile route, a token with role ADMIN on
\* the administrators' routes
StaleAccepted ==
  (SessionStep /\ now' < last'.req.session.exp) =>
    /\ last'.op = "usersMeGET" => last'.mw.kind = "next"
    /\ (last'.op \in {"usersGET", "rolePATCH"} /\ last'.req.session.role = "ADMIN") =>
         Answer.status \notin {401, 403}

\* a token that has expired is denied
ExpiredDenied ==
  (SessionStep /\ now >= last'.req.session.exp) =>
    Answer.kind = "response" /\ Answer.status \in {401, 403}

\* C24: a token issued before a role change or a deactivation is accepted
\* with its old role only until it expires, at most 30 days after it was
\* issued; after that every request with it to a route that asks for a
\* session is denied, and the token of a new sign-in carries the role the
\* account has in the store.
C24_StalenessBounded ==
  [][ /\ LifetimeBounded'
      /\ StaleAccepted
      /\ ExpiredDenied
      /\ (CallbackStep /\ last'.token.present) =>
           /\ last'.token.exp = now' + SessionMaxAge
           /\ last'.token.role = users'[last'.profile.email].role ]_vars

----------------------------------------------------------------------------
(* Properties of deactivated accounts and of privileges, checked under Spec.  *)

\* the Internal paths the middleware guards
InternalPaths == {PathUsersMe, PathUsers, PathUserRole, PathUsersAuth, PathAdminArea}

\* the middleware lets a request with the token through on some Internal route
MiddlewareAccepts(token, t) ==
  \E p \in InternalPaths :
    middleware(env, Req(p, HubKey, NullSeq, NullSeq, token, TRUE, 0, NullSeq, NoBody), t).kind
      = "next"

\* C29: a sign-in through the signIn and jwt callbacks for an account that has
\* isActive = false yields no token that the middleware accepts on an
\* Internal route: the sign-in is rejected, or no token is issued.
C29_DeactivatedGetsNoSession ==
  [][ (/\ CallbackStep
       /\ users[last'.profile.email].exists
       /\ ~users[last'.profile.email].isActive) =>
        /\ last'.token.present => ~MiddlewareAccepts(last'.token, now')
        /\ last'.result # "true" \/ ~last'.token.present ]_vars

\* the gate has allowed the request of the step: its key is valid, the
\* middleware, when the request went through it, passed it on, and a PATCH of
\* a role has an administrator's session
GateAllowed ==
  /\ validateApiAccess(env, last'.req, "internal").isValid
  /\ last'.req.viaMiddleware => last'.mw.kind = "next"
  /\ last'.op = "rolePATCH" => validateAdminAuth(last'.req, now').isValid

PatchStep == last'.op = "rolePATCH" /\ last'.res # NotRun

\* the handler has answered with the status and the code
PatchAnswers(status, code) ==
  last'.res.kind = "response" /\ last'.res.status = status /\ last'.res.code = code

\* C26: PATCH of a user's role checks, in this order, the API key (401
\* UNAUTHORIZED_API), the administrator's session (403
\* INSUFFICIENT_PERMISSIONS), the target user (404 NOT_FOUND) and the body (400
\* VALIDATION_ERROR), and writes role and isActive of the target only when
\* all four pass; with any of these answers, and with 500 after a store
\* error, the account store is unchanged.
C26_PatchChecksInOrder ==
  [][ PatchStep =>
        LET keyOk == validateApiAccess(env, last'.req, "internal").isValid
            adminOk == validateAdminAuth(last'.req, now').isValid
            targetOk == FindById(users, last'.req.targetId).exists
            bodyOk == UpdateRoleSchemaValid(last'.req.body)
            fault == last'.req.fault
        \* fault 1: the lookup of the target rejects; fault 2: the update rejects
        IN /\ ~keyOk => PatchAnswers(401, "UNAUTHORIZED_API")
           /\ (keyOk /\ ~adminOk) => PatchAnswers(403, "INSUFFICIENT_PERMISSIONS")
           /\ (keyOk /\ adminOk /\ fault # 1 /\ ~targetOk) => PatchAnswers(404, "NOT_FOUND")
           /\ (keyOk /\ adminOk /\ fault # 1 /\ targetOk /\ ~bodyOk) =>
                PatchAnswers(400, "VALIDATION_ERROR")
           /\ (keyOk /\ adminOk /\ (fault = 1 \/ (fault = 2 /\ targetOk /\ bodyOk))) =>
                PatchAnswers(500, "INTERNAL_ERROR")
           /\ users' # users => keyOk /\ adminOk /\ targetOk /\ bodyOk /\ fault = 0
           /\ last'.res.status # 200 => users' = users ]_vars

----------------------------------------------------------------------------
(* Properties of the key check and of origins, checked under SpecGate.        *)

\* the key is one of the configured keys and that key allows the route class
ConfiguredFor(e, k, rt) ==
  \/ k = e.HUB_API_KEY
  \/ k = e.DEV_API_KEY
  \/ k = e.WEBSITE_API_KEY /\ rt = "external"

ExactlyMatches(pattern, origin) ==
  IF pattern[Len(pattern)] = "*"
    THEN /\ Len(origin) >= Len(pattern)
         /\ SubSeq(origin, 1, Len(pattern) - 1) = SubSeq(pattern, 1, Len(pattern) - 1)
         /\ \A i \in Len(pattern)..Len(origin) : origin[i] \in Digits
    ELSE origin = pattern

\* C28: in production a request with an Origin header and a registered key of
\* the right route class is valid only if its origin is one of the origins
\* listed for the key, or 'http://localhost:' followed by a port number for
\* the wildcard pattern; an origin that only begins with a listed origin or
\* only contains 'http://localhost:<digits>' is denied.
C28_OnlyListedOrigins ==
  (/\ last.op \in KeyCheckedOps
   /\ env.NODE_ENV = "production"
   /\ RightKey(env, last.req)
   /\ last.req.origin # NullSeq
   /\ validateApiAccess(env, last.req, RouteClass(last.req)).isValid) =>
    LET allowedOrigins == ALLOWED_ORIGINS(env, last.req.apiKey).items
    IN \E i \in 1..Len(allowedOrigins) : ExactlyMatches(allowedOrigins[i], last.req.origin)

\* the row of account id is kept and its role or its isActive flag differs
\* after the step
RoleOrActiveChanged(id) ==
  /\ users[id].exists
  /\ users'[id].exists
  /\ (users'[id].role # users[id].role \/ users'[id].isActive # users[id].isActive)

\* the role of the session the request of the step carried
SessionRoleOfStep == getServerSession(last'.req, now').role

\* C30: no privilege escalation.  The role or the isActive flag of an account
\* changes only in a PATCH of a user's role or a PUT of /api/internal/users/me
\* whose session role is ADMIN; a PUT of /api/internal/users/me whose session
\* role is not ADMIN leaves the role and the isActive flag of the caller (and
\* of everyone else) as they were, whatever its body asks for; and no sign-in,
\* through the callbacks or through POST users/auth, raises the role of an
\* account that exists.
C30_NoPrivilegeEscalation ==
  [][/\ (\E id \in DOMAIN users : RoleOrActiveChanged(id)) =>
          /\ last'.op \in {"rolePATCH", "usersMePUT"}
          /\ SessionRoleOfStep = "ADMIN"
     /\ (last'.op = "usersMePUT" /\ SessionRoleOfStep # "ADMIN") =>
          \A id \in DOMAIN users : ~RoleOrActiveChanged(id)
     /\ last'.op \in {"signIn", "signInUpsert", "usersAuthPOST"} =>
          \A id \in DOMAIN users :
            (users[id].exists /\ users'[id].exists) =>
              rank[users'[id].role] <= rank[users[id].role]]_vars

\* a manager whose PUT of /api/internal/users/me asked for the role ADMIN was
\* answered 200 and is still not an administrator
C30_Witness ==
  /\ last.op = "usersMePUT"
  /\ last.res.status = 200
  /\ last.req.session.role = "MANAGER"
  /\ last.req.body.role = "ADMIN"
  /\ users[last.req.session.sub].role = "MANAGER"
====
